---------------------------- MODULE Spec2Model ----------------------------
(***************************************************************************)
(* A model of src/minify_files.py (SkySheet-Minifizer).                    *)
(*                                                                         *)
(* File contents and texts are sequences of one-character strings.  The    *)
(* pure functions minify_text and minify_json are operators computed the   *)
(* way the regular expressions and the json module compute them; the file  *)
(* processor and the directory walker are actions over a small file        *)
(* system.                                                                 *)
(***************************************************************************)
EXTENDS Integers, Sequences, FiniteSets, TLC

(***************************************************************************)
(* Characters.                                                             *)
(***************************************************************************)
SP == " "
TAB == "\t"
LF == "\n"
CR == "\r"
FF == "\f"
QUOTE == "\""
BACKSLASH == "\\"

\* What the pattern [\r\n\t] matches (line 88).
NewlineTab == {CR, LF, TAB}

\* What \s matches and str.strip() strips, among the model's characters
\* (lines 92 and 94): the form feed is whitespace for both.
Space == {SP, TAB, LF, CR, FF}

\* The character class [\{\}\[\]:,] (line 92).
Punct == {"{", "}", "[", "]", ":", ","}

(***************************************************************************)
(* minify_text (lines 77-94).                                              *)
(***************************************************************************)
At(s, i) == IF i >= 1 /\ i <= Len(s) THEN s[i] ELSE ""

\* The slice s[a-1:b] of Python: the characters a..b of s that exist.
Slice(s, a, b) == SubSeq(s, a, IF b > Len(s) THEN Len(s) ELSE b)

\* The first index >= i of s whose character is not in set (Len(s)+1 if none):
\* where a greedy run of set characters starting at i ends.
RECURSIVE RunEnd(_, _, _)
RunEnd(s, i, set) ==
    IF i <= Len(s) /\ s[i] \in set THEN RunEnd(s, i + 1, set) ELSE i

\* re.sub(r'[\r\n\t]+', ' ', content), from index i on.
RECURSIVE SubNewlines(_, _)
SubNewlines(s, i) ==
    IF i > Len(s) THEN <<>>
    ELSE IF s[i] \in NewlineTab
         THEN <<SP>> \o SubNewlines(s, RunEnd(s, i, NewlineTab))
         ELSE <<s[i]>> \o SubNewlines(s, i + 1)

\* re.sub(r' {2,}', ' ', content), from index i on.
RECURSIVE SubSpaces(_, _)
SubSpaces(s, i) ==
    IF i > Len(s) THEN <<>>
    ELSE IF s[i] = SP /\ At(s, i + 1) = SP
         THEN <<SP>> \o SubSpaces(s, RunEnd(s, i, {SP}))
         ELSE <<s[i]>> \o SubSpaces(s, i + 1)

\* re.sub(r'\s*([\{\}\[\]:,])\s*', r'\1', content), from index i on: a match
\* starts at i when the greedy whitespace run from i is followed by a
\* punctuation character, and takes the whitespace after it as well.
RECURSIVE SubPunct(_, _)
SubPunct(s, i) ==
    IF i > Len(s) THEN <<>>
    ELSE LET j == RunEnd(s, i, Space)
         IN  IF j <= Len(s) /\ s[j] \in Punct
             THEN <<s[j]>> \o SubPunct(s, RunEnd(s, j + 1, Space))
             ELSE <<s[i]>> \o SubPunct(s, i + 1)

\* The last index of s whose character is not whitespace (0 if none).
RECURSIVE LastNonSpace(_, _)
LastNonSpace(s, i) ==
    IF i >= 1 /\ s[i] \in Space THEN LastNonSpace(s, i - 1) ELSE i

\* content.strip()
Strip(s) ==
    LET a == RunEnd(s, 1, Space)
        b == LastNonSpace(s, Len(s))
    IN  IF a > b THEN <<>> ELSE SubSeq(s, a, b)

\* minify_text with lines 88 and 90 in the other order: the spaces are
\* collapsed before the newlines and tabs become spaces.
minify_text_collapse_first(content) ==
    Strip(SubPunct(SubNewlines(SubSpaces(content, 1), 1), 1))

minify_text(content) ==
    Strip(SubPunct(SubSpaces(SubNewlines(content, 1), 1), 1))

(***************************************************************************)
(* json.loads (line 71), as the json module's decoder computes it.  A JSON *)
(* value is a tagged tuple:                                                *)
(*   <<"str", chars>>            a string                                  *)
(*   <<"int", neg, digits>>      a Python int (arbitrary precision)        *)
(*   <<"float", neg, digits, e>> a finite float 0.d1d2...dk * 10^e with no *)
(*                               leading or trailing zero digit (k = 0 is  *)
(*                               zero)                                     *)
(*   <<"inf", neg>>              a float infinity                          *)
(*   <<"arr", items>>            a list                                    *)
(*   <<"obj", pairs>>            a dict, as its <<key, value>> pairs in    *)
(*                               insertion order                           *)
(* A float is kept as its decimal digits: a double holds a decimal of at   *)
(* most 15 significant digits without loss, so the model is exact for the  *)
(* texts the bounds allow (none has more than 15 digits).  The texts hold  *)
(* none of the letters of true, false, null and NaN, so these literals are *)
(* not modelled.                                                           *)
(***************************************************************************)
Digits == {"0", "1", "2", "3", "4", "5", "6", "7", "8", "9"}

DigitVal == [d \in Digits |->
    CASE d = "0" -> 0 [] d = "1" -> 1 [] d = "2" -> 2 [] d = "3" -> 3
      [] d = "4" -> 4 [] d = "5" -> 5 [] d = "6" -> 6 [] d = "7" -> 7
      [] d = "8" -> 8 [] d = "9" -> 9]

DigitChar == <<"1", "2", "3", "4", "5", "6", "7", "8", "9">>

\* The decoder's whitespace, [ \t\n\r]*: the form feed is not part of it.
JsonSpace == {SP, TAB, LF, CR}

\* Characters below U+0020, which a strict decoder refuses inside a string.
Control == {TAB, LF, CR, FF}

\* json.decoder.BACKSLASH, for the escape letters the texts can hold.
Unescape == [c \in {QUOTE, BACKSLASH, "n", "t", "f"} |->
    CASE c = QUOTE -> QUOTE [] c = BACKSLASH -> BACKSLASH
      [] c = "n" -> LF [] c = "t" -> TAB [] c = "f" -> FF]

Infinity == <<"I", "n", "f", "i", "n", "i", "t", "y">>

Fail == [ok |-> FALSE, val |-> <<>>, end |-> 0]

Ok(v, e) == [ok |-> TRUE, val |-> v, end |-> e]

\* The value of a run of decimal digits.
RECURSIVE DigitsVal(_)
DigitsVal(ds) ==
    IF ds = <<>> THEN 0 ELSE 10 * DigitsVal(SubSeq(ds, 1, Len(ds) - 1)) + DigitVal[ds[Len(ds)]]

\* The decimal digits of a natural number (str(n)).
RECURSIVE NatDigits(_)
NatDigits(n) ==
    IF n < 10 THEN <<IF n = 0 THEN "0" ELSE DigitChar[n]>>
    ELSE NatDigits(n \div 10) \o <<IF n % 10 = 0 THEN "0" ELSE DigitChar[n % 10]>>

RECURSIVE StripLeadingZeros(_)
StripLeadingZeros(ds) ==
    IF ds # <<>> /\ ds[1] = "0" THEN StripLeadingZeros(Tail(ds)) ELSE ds

RECURSIVE StripTrailingZeros(_)
StripTrailingZeros(ds) ==
    IF ds # <<>> /\ ds[Len(ds)] = "0"
    THEN StripTrailingZeros(SubSeq(ds, 1, Len(ds) - 1)) ELSE ds

\* Whether the digit sequence a is greater than b, compared digit by digit
\* with the shorter one padded by zeros on the right.
RECURSIVE DigitsGreater(_, _)
DigitsGreater(a, b) ==
    IF a = <<>> THEN FALSE
    ELSE IF b = <<>> THEN TRUE
    ELSE IF DigitVal[a[1]] # DigitVal[b[1]] THEN DigitVal[a[1]] > DigitVal[b[1]]
    ELSE DigitsGreater(Tail(a), Tail(b))

\* The leading digits of 2^1024 - 2^970 = 1.7976931348623158079...e308: a
\* decimal of at most 17 digits rounds to infinity iff it is above them.
OverflowDigits ==
    <<"1", "7", "9", "7", "6", "9", "3", "1", "3", "4", "8", "6", "2", "3", "1", "5", "8">>

\* int(text): the digits are already canonical (the number pattern allows no
\* leading zero), and -0 is 0.
PyInt(neg, ds) == <<"int", neg /\ ds # <<"0">>, ds>>

\* A float from its digits after the leading zeros (lead) and the power of
\* ten of 0.lead (decpt): the trailing zeros go; above the largest double
\* the result is infinity, below the smallest subnormal it is zero.
FloatOf(neg, m, decpt) ==
    IF m = <<>> THEN <<"float", neg, <<>>, 0>>
    ELSE IF decpt > 309 \/ (decpt = 309 /\ DigitsGreater(m, OverflowDigits))
         THEN <<"inf", neg>>
    ELSE IF decpt < -323 THEN <<"float", neg, <<>>, 0>>
    ELSE <<"float", neg, m, decpt>>

FloatOfLead(neg, lead, exp, fracLen) ==
    FloatOf(neg, StripTrailingZeros(lead), exp - fracLen + Len(lead))

\* float(text) for the text  [-] int [. frac] [e exp]: mantissa int.frac,
\* decimal exponent exp.
PyFloat(neg, int, frac, exp) ==
    FloatOfLead(neg, StripLeadingZeros(int \o frac), exp, Len(frac))

\* json.scanner.NUMBER_RE at index i:
\*   (-?(?:0|[1-9]\d*))(\.\d+)?([eE][-+]?\d+)?
\* and the conversion of what it matched (float if there is a fraction or an
\* exponent, int otherwise).  The pattern is matched part by part: the
\* integer part from a to intEnd, the fraction to fracEnd, the exponent, whose
\* digits start at expStart.
NumberExp(s, neg, int, frac, hasFrac, fracEnd, expStart) ==
    IF At(s, fracEnd) \in {"e", "E"} /\ At(s, expStart) \in Digits
    THEN Ok(PyFloat(neg, int, frac,
                    IF At(s, fracEnd + 1) = "-"
                    THEN 0 - DigitsVal(SubSeq(s, expStart, RunEnd(s, expStart, Digits) - 1))
                    ELSE DigitsVal(SubSeq(s, expStart, RunEnd(s, expStart, Digits) - 1))),
            RunEnd(s, expStart, Digits))
    ELSE IF hasFrac THEN Ok(PyFloat(neg, int, frac, 0), fracEnd)
    ELSE Ok(PyInt(neg, int), fracEnd)

NumberFracEnd(s, neg, int, intEnd, hasFrac, fracEnd) ==
    NumberExp(s, neg, int,
              IF hasFrac THEN SubSeq(s, intEnd + 1, fracEnd - 1) ELSE <<>>,
              hasFrac, fracEnd,
              IF At(s, fracEnd + 1) \in {"+", "-"} THEN fracEnd + 2 ELSE fracEnd + 1)

NumberFrac(s, neg, int, intEnd, hasFrac) ==
    NumberFracEnd(s, neg, int, intEnd, hasFrac,
                  IF hasFrac THEN RunEnd(s, intEnd + 1, Digits) ELSE intEnd)

NumberInt(s, neg, a, intEnd) ==
    NumberFrac(s, neg, SubSeq(s, a, intEnd - 1), intEnd,
               At(s, intEnd) = "." /\ At(s, intEnd + 1) \in Digits)

NumberFrom(s, neg, a) ==
    IF At(s, a) \notin Digits THEN Fail
    ELSE NumberInt(s, neg, a, IF s[a] = "0" THEN a + 1 ELSE RunEnd(s, a, Digits))

MatchNumber(s, i) ==
    IF At(s, i) = "-" THEN NumberFrom(s, TRUE, i + 1) ELSE NumberFrom(s, FALSE, i)

\* json.decoder.scanstring (strict): s[i] is the character after the opening
\* quote; acc is the string read so far.
RECURSIVE ScanString(_, _, _)
ScanString(s, i, acc) ==
    IF i > Len(s) THEN Fail
    ELSE IF s[i] = QUOTE THEN Ok(acc, i + 1)
    ELSE IF s[i] = BACKSLASH
         THEN IF At(s, i + 1) \in DOMAIN Unescape
              THEN ScanString(s, i + 2, Append(acc, Unescape[s[i + 1]]))
              ELSE Fail
    ELSE IF s[i] \in Control THEN Fail
    ELSE ScanString(s, i + 1, Append(acc, s[i]))

\* dict(pairs) so far, with one more pair: a key seen before keeps its place
\* and takes the new value.
RECURSIVE DictSet(_, _, _)
DictSet(pairs, k, v) ==
    IF pairs = <<>> THEN <<<<k, v>>>>
    ELSE IF pairs[1][1] = k THEN <<<<k, v>>>> \o Tail(pairs)
    ELSE <<pairs[1]>> \o DictSet(Tail(pairs), k, v)

RECURSIVE ScanOnce(_, _, _)
RECURSIVE ArrayItems(_, _, _, _)
RECURSIVE ObjectPairs(_, _, _, _)

\* json.decoder.JSONArray after the opening bracket, b being the index after
\* the whitespace that follows it.
ArrayFrom(s, b, const) ==
    IF At(s, b) = "]" THEN Ok(<<"arr", <<>>>>, b + 1)
    ELSE ArrayItems(s, b, <<>>, const)

JSONArray(s, i, const) == ArrayFrom(s, RunEnd(s, i, JsonSpace), const)

\* The loop of JSONArray: items is what was read so far with the item just
\* read, and s[e] the character after it and the whitespace that follows.
ArrayAfterItem(s, e, items, const) ==
    IF At(s, e) = "]" THEN Ok(<<"arr", items>>, e + 1)
    ELSE IF At(s, e) # "," THEN Fail
    ELSE ArrayItems(s, RunEnd(s, e + 1, JsonSpace), items, const)

ArrayItem(s, v, acc, const) ==
    IF ~v.ok THEN Fail
    ELSE ArrayAfterItem(s, RunEnd(s, v.end, JsonSpace), Append(acc, v.val), const)

\* s[i] starts the next item.
ArrayItems(s, i, acc, const) == ArrayItem(s, ScanOnce(s, i, const), acc, const)

\* The loop of JSONObject: pairs is the dict so far with the pair just read,
\* and s[e] the character after it and the whitespace that follows.
ObjectNextKey(s, n, pairs, const) ==
    IF At(s, n) # QUOTE THEN Fail ELSE ObjectPairs(s, n + 1, pairs, const)

ObjectAfterPair(s, e, pairs, const) ==
    IF At(s, e) = "}" THEN Ok(<<"obj", pairs>>, e + 1)
    ELSE IF At(s, e) # "," THEN Fail
    ELSE ObjectNextKey(s, RunEnd(s, e + 1, JsonSpace), pairs, const)

ObjectValue(s, key, v, acc, const) ==
    IF ~v.ok THEN Fail
    ELSE ObjectAfterPair(s, RunEnd(s, v.end, JsonSpace), DictSet(acc, key, v.val), const)

ObjectColon(s, key, c, acc, const) ==
    IF At(s, c) # ":" THEN Fail
    ELSE ObjectValue(s, key, ScanOnce(s, RunEnd(s, c + 1, JsonSpace), const), acc, const)

ObjectKey(s, k, acc, const) ==
    IF ~k.ok THEN Fail
    ELSE ObjectColon(s, k.val, RunEnd(s, k.end, JsonSpace), acc, const)

\* s[i] is the character after a key's opening quote.
ObjectPairs(s, i, acc, const) == ObjectKey(s, ScanString(s, i, <<>>), acc, const)

\* json.decoder.JSONObject after the opening brace, b being the index after
\* the whitespace that follows it.
ObjectFrom(s, b, const) ==
    IF At(s, b) = "}" THEN Ok(<<"obj", <<>>>>, b + 1)
    ELSE IF At(s, b) # QUOTE THEN Fail
    ELSE ObjectPairs(s, b + 1, <<>>, const)

JSONObject(s, i, const) == ObjectFrom(s, RunEnd(s, i, JsonSpace), const)

StringValue(r) == IF r.ok THEN Ok(<<"str", r.val>>, r.end) ELSE Fail

\* What _scan_once does when s[i] starts no string, object or array: a
\* number, or one of the constants outside the JSON grammar when const says
\* they are taken (json.loads takes Infinity and -Infinity; a JSON parser
\* does not).
NumberOrConstant(s, i, num, const) ==
    IF num.ok THEN num
    ELSE IF const /\ At(s, i) = "I" /\ Slice(s, i, i + 7) = Infinity
         THEN Ok(<<"inf", FALSE>>, i + 8)
    ELSE IF const /\ At(s, i) = "-" /\ Slice(s, i + 1, i + 8) = Infinity
         THEN Ok(<<"inf", TRUE>>, i + 9)
    ELSE Fail

\* json.scanner.py_make_scanner's _scan_once at index i.
ScanOnce(s, i, const) ==
    IF At(s, i) = QUOTE THEN StringValue(ScanString(s, i + 1, <<>>))
    ELSE IF At(s, i) = "{" THEN JSONObject(s, i + 1, const)
    ELSE IF At(s, i) = "[" THEN JSONArray(s, i + 1, const)
    ELSE NumberOrConstant(s, i, MatchNumber(s, i), const)

\* JSONDecoder.decode: one value between whitespace, and nothing after it.
DecodeEnd(s, r) ==
    IF r.ok /\ RunEnd(s, r.end, JsonSpace) = Len(s) + 1 THEN r ELSE Fail

Decode(s, const) == DecodeEnd(s, ScanOnce(s, RunEnd(s, 1, JsonSpace), const))

json_loads(s) == Decode(s, TRUE)

(***************************************************************************)
(* json.dumps(json_data, separators=(',', ':')) (line 72).                 *)
(***************************************************************************)
\* json.encoder.ESCAPE_DCT, for the characters a decoded string can hold.
EscapeChar(c) ==
    CASE c = QUOTE -> <<BACKSLASH, QUOTE>>
      [] c = BACKSLASH -> <<BACKSLASH, BACKSLASH>>
      [] c = LF -> <<BACKSLASH, "n">>
      [] c = CR -> <<BACKSLASH, "r">>
      [] c = TAB -> <<BACKSLASH, "t">>
      [] c = FF -> <<BACKSLASH, "f">>
      [] OTHER -> <<c>>

RECURSIVE EscapeAll(_)
EscapeAll(cs) ==
    IF cs = <<>> THEN <<>> ELSE EscapeChar(cs[1]) \o EscapeAll(Tail(cs))

\* encode_basestring_ascii
EncodeString(cs) == <<QUOTE>> \o EscapeAll(cs) \o <<QUOTE>>

Zeros(n) == [k \in 1..n |-> "0"]

\* float.__repr__ of the finite float 0.m * 10^decpt: the shortest digits,
\* in exponent form when decpt <= -4 or decpt > 16.
FloatRepr(neg, m, decpt) ==
    LET sign == IF neg THEN <<"-">> ELSE <<>>
        k == Len(m)
        x == decpt - 1
        xd == NatDigits(IF x < 0 THEN 0 - x ELSE x)
        body ==
            IF m = <<>> THEN <<"0", ".", "0">>
            ELSE IF decpt <= -4 \/ decpt > 16
                 THEN <<m[1]>> \o (IF k > 1 THEN <<".">> \o Tail(m) ELSE <<>>)
                      \o <<"e", IF x < 0 THEN "-" ELSE "+">>
                      \o (IF Len(xd) < 2 THEN <<"0">> ELSE <<>>) \o xd
            ELSE IF decpt <= 0 THEN <<"0", ".">> \o Zeros(0 - decpt) \o m
            ELSE IF decpt < k
                 THEN SubSeq(m, 1, decpt) \o <<".">> \o SubSeq(m, decpt + 1, k)
            ELSE m \o Zeros(decpt - k) \o <<".", "0">>
    IN  sign \o body

RECURSIVE Dumps(_)
RECURSIVE DumpItems(_)
RECURSIVE DumpPairs(_)

\* The items of a list, joined by the item separator ','.
DumpItems(items) ==
    IF items = <<>> THEN <<>>
    ELSE Dumps(items[1])
         \o (IF Len(items) > 1 THEN <<",">> \o DumpItems(Tail(items)) ELSE <<>>)

\* The pairs of a dict, key and value joined by the key separator ':'.
DumpPairs(pairs) ==
    IF pairs = <<>> THEN <<>>
    ELSE EncodeString(pairs[1][1]) \o <<":">> \o Dumps(pairs[1][2])
         \o (IF Len(pairs) > 1 THEN <<",">> \o DumpPairs(Tail(pairs)) ELSE <<>>)

\* JSONEncoder.iterencode, joined.
Dumps(v) ==
    CASE v[1] = "str" -> EncodeString(v[2])
      [] v[1] = "int" -> (IF v[2] THEN <<"-">> ELSE <<>>) \o v[3]
      [] v[1] = "float" -> FloatRepr(v[2], v[3], v[4])
      [] v[1] = "inf" -> (IF v[2] THEN <<"-">> ELSE <<>>) \o Infinity
      [] v[1] = "arr" -> <<"[">> \o DumpItems(v[2]) \o <<"]">>
      [] v[1] = "obj" -> <<"{">> \o DumpPairs(v[2]) \o <<"}">>

(***************************************************************************)
(* minify_json (lines 59-75).  None is the value of that name.             *)
(***************************************************************************)
None == <<"None">>

DumpsOrNone(json_data) ==
    IF json_data.ok THEN Dumps(json_data.val) ELSE None

minify_json(content) == DumpsOrNone(json_loads(content))

(***************************************************************************)
(* The file system.  An entry name is the sequence of its stem and its     *)
(* dot-suffixes (<<"a", ".json", ".bak">> is a.json.bak; a stem holds no   *)
(* dot and is not empty).  A directory is the sequence of entry names      *)
(* leading to it from the directory the run is given (<<>>), a file path a *)
(* directory and a name.  A file system is the set of its directories and  *)
(* the bytes of its regular files.  A byte is a character of the texts     *)
(* above (its UTF-8 encoding) or 0xFF, which no UTF-8 text holds.          *)
(***************************************************************************)
xFF == "xFF"

Join(dir, name) == [dir |-> dir, name |-> name]

\* The same place read as a directory, and back.
AsDir(path) == Append(path.dir, path.name)

AsFile(dir) == [dir |-> SubSeq(dir, 1, Len(dir) - 1), name |-> dir[Len(dir)]]

isfile(fs, path) == path \in DOMAIN fs.files

isdir(fs, dir) == dir \in fs.dirs

\* str.lower() on an entry name changes its upper-case suffixes.
Lower(c) == IF c = ".JSON" THEN ".json" ELSE c

\* os.path.splitext(filename)
SplitExt(name) ==
    IF Len(name) >= 2
    THEN [root |-> SubSeq(name, 1, Len(name) - 1), ext |-> name[Len(name)]]
    ELSE [root |-> name, ext |-> ""]

(***************************************************************************)
(* detect_encoding, read_file and write_file (lines 9-57).  The two-byte   *)
(* sequences the UTF-16-LE codec is asked to decode in this model are      *)
(* those of Utf16Unit: a file that is valid UTF-8 never reaches it.        *)
(***************************************************************************)
encodings == <<"utf-8", "utf-16-le">>

Utf16Unit == (<<xFF, "a">> :> "U+61FF")

Utf16Bytes == ("U+61FF" :> <<xFF, "a">>)

RECURSIVE Utf16Decode(_)
Utf16Decode(bytes) ==
    IF bytes = <<>> THEN <<>>
    ELSE <<Utf16Unit[SubSeq(bytes, 1, 2)]>> \o Utf16Decode(SubSeq(bytes, 3, Len(bytes)))

RECURSIVE Utf16Encode(_)
Utf16Encode(text) ==
    IF text = <<>> THEN <<>>
    ELSE (IF text[1] \in DOMAIN Utf16Bytes THEN Utf16Bytes[text[1]] ELSE <<text[1], "x00">>)
         \o Utf16Encode(Tail(text))

\* Whether open(..., encoding=encoding).read() raises no UnicodeDecodeError.
CanDecode(bytes, encoding) ==
    IF encoding = "utf-8" THEN \A i \in 1..Len(bytes) : bytes[i] # xFF
    ELSE /\ Len(bytes) % 2 = 0
         /\ \A i \in 1..(Len(bytes) \div 2) :
                SubSeq(bytes, 2 * i - 1, 2 * i) \in DOMAIN Utf16Unit

\* detect_encoding (lines 20-31): the first encoding that decodes the whole
\* file, 'utf-8' if none does.
RECURSIVE DetectFrom(_, _)
DetectFrom(bytes, i) ==
    IF i > Len(encodings) THEN "utf-8"
    ELSE IF CanDecode(bytes, encodings[i]) THEN encodings[i]
    ELSE DetectFrom(bytes, i + 1)

detect_encoding(fs, path) == DetectFrom(fs.files[path], 1)

\* read_file (lines 44-45): the text, or the UnicodeDecodeError raised.
read_file(fs, path, encoding) ==
    LET bytes == fs.files[path]
    IN  IF ~CanDecode(bytes, encoding) THEN [raised |-> TRUE, text |-> <<>>]
        ELSE [raised |-> FALSE,
              text |-> IF encoding = "utf-8" THEN bytes ELSE Utf16Decode(bytes)]

Encode(text, encoding) ==
    IF encoding = "utf-8" THEN text ELSE Utf16Encode(text)

\* open(file_path, 'w') (line 56): raises on a directory, else creates the
\* file or truncates it.
open_w(fs, path) ==
    IF isdir(fs, AsDir(path)) THEN [raised |-> TRUE, fs |-> fs]
    ELSE [raised |-> FALSE,
          fs |-> [fs EXCEPT !.files = (path :> <<>>) @@ fs.files]]

\* file.write(content) and the close of the with block (line 57).
write_close(fs, path, content, encoding) ==
    [fs EXCEPT !.files = (path :> Encode(content, encoding)) @@ fs.files]

\* os.makedirs(backup_folder) without exist_ok: an existing backup directory
\* raises FileExistsError as well.
makedirs_once(fs, dir) ==
    IF isdir(fs, dir) \/ isfile(fs, AsFile(dir)) THEN [raised |-> TRUE, fs |-> fs]
    ELSE [raised |-> FALSE, fs |-> [fs EXCEPT !.dirs = fs.dirs \cup {dir}]]

\* os.makedirs(backup_folder, exist_ok=True) (line 121): the parent is the
\* directory of the file being processed, which exists.
makedirs(fs, dir) ==
    IF isdir(fs, dir) THEN [raised |-> FALSE, fs |-> fs]
    ELSE IF isfile(fs, AsFile(dir)) THEN [raised |-> TRUE, fs |-> fs]
    ELSE [raised |-> FALSE, fs |-> [fs EXCEPT !.dirs = fs.dirs \cup {dir}]]

\* shutil.copy2(file_path, backup_path) (line 126).  No directory of the
\* model is named like a backup file, so the copy lands on backup_path.
copy2(fs, src, dst) ==
    [fs EXCEPT !.files = (dst :> fs.files[src]) @@ fs.files]

(***************************************************************************)
(* process_file (lines 96-160), in the steps between which the file system *)
(* can be observed.  Each step gives the file system it leaves and whether *)
(* it raised, which ends the call with False (lines 152-160).              *)
(***************************************************************************)
\* lines 119-120
BackupFolder(path) == Append(path.dir, <<"backup">>)

\* lines 124-125
BackupPath(path) == Join(BackupFolder(path), path.name \o <<".bak">>)

\* line 130
FileExt(path) == Lower(SplitExt(path.name).ext)

\* lines 142-143
NewFilePath(path) == Join(path.dir, SplitExt(path.name).root \o <<".skysheet">>)

\* lines 133-136
Minify(path, content) ==
    IF FileExt(path) = ".json" THEN minify_json(content) ELSE minify_text(content)

\* The whole call on file system fs: the file system it leaves and the value
\* it returns.
process_file(fs, path) ==
    IF ~isfile(fs, path) THEN [fs |-> fs, ret |-> FALSE]
    ELSE
    LET original_encoding == detect_encoding(fs, path)
        made == makedirs(fs, BackupFolder(path))
        copied == copy2(made.fs, path, BackupPath(path))
        read == read_file(copied, path, original_encoding)
        minified_content == Minify(path, read.text)
        opened == open_w(copied, NewFilePath(path))
    IN  IF made.raised THEN [fs |-> made.fs, ret |-> FALSE]
        ELSE IF read.raised THEN [fs |-> copied, ret |-> FALSE]
        ELSE IF minified_content = None THEN [fs |-> copied, ret |-> FALSE]
        ELSE IF opened.raised THEN [fs |-> opened.fs, ret |-> FALSE]
        ELSE [fs |-> write_close(opened.fs, NewFilePath(path), minified_content,
                                 original_encoding),
              ret |-> TRUE]

(***************************************************************************)
(* process_directory (lines 162-187).                                      *)
(***************************************************************************)
supported_extensions == {".json", ".txt", ".skysheet"}

\* file.endswith(supported_extensions), without lower()
Supported_case_sensitive(name) ==
    Len(name) >= 2 /\ name[Len(name)] \in supported_extensions

\* The loop of line 179 without the filter of line 180
Supported_unfiltered(name) == TRUE

\* file.lower().endswith(supported_extensions) (line 180)
Supported(name) == Len(name) >= 2 /\ Lower(name[Len(name)]) \in supported_extensions

\* What os.walk's scan of directory top lists: its files and its directories.
FilesIn(fs, top) == {p.name : p \in {q \in DOMAIN fs.files : q.dir = top}}

DirsIn(fs, top) ==
    {d \in fs.dirs : Len(d) = Len(top) + 1 /\ SubSeq(d, 1, Len(top)) = top}

\* The orders in which a scan can list the members of S.
Orders(S) ==
    {o \in [1..Cardinality(S) -> S] : \A x \in S : \E i \in DOMAIN o : o[i] = x}

(***************************************************************************)
(* The state.                                                              *)
(*   fs                 the file system                                    *)
(*   pc                 where the run stands: "idle" (no run), "walk" (in  *)
(*                      the loops of process_directory), "prepare",        *)
(*                      "copy", "read", "open", "write" (in process_file), *)
(*                      "ret" (process_file has returned)                  *)
(*   dirs_left          the directories os.walk has still to scan          *)
(*   root, files        the directory being listed, and those of its files *)
(*                      the for loop has not reached yet                   *)
(*   file_path, original_encoding, minified_content, ret                   *)
(*                      the argument, the locals and the result of the     *)
(*                      current process_file call                          *)
(*   count, errors      the counters of process_directory                  *)
(*   runs               the number of runs completed                       *)
(* and, to state the properties:                                           *)
(*   start              the file system when the current run started       *)
(*   call               the file system, the counters and written when the *)
(*                      current process_file call was made, and its        *)
(*                      argument                                           *)
(*   called             how many times process_file was called on each     *)
(*                      path in the current run                            *)
(*   trues              how many calls of the current run returned True    *)
(*   written            the output files written by successful calls       *)
(*   content, result, again, stage                                         *)
(*                      the input of a minifier on its own, its output,    *)
(*                      the output of the text minifier applied to that,   *)
(*                      and how far this went                              *)
(***************************************************************************)
VARIABLES fs, pc, dirs_left, root, files, file_path, original_encoding,
          minified_content, ret, count, errors, runs, start, call, called,
          trues, written, content, result, again, stage

runVars == <<fs, pc, dirs_left, root, files, file_path, original_encoding,
             minified_content, ret, count, errors, runs, start, call, called,
             trues, written>>

pureVars == <<content, result, again, stage>>

vars == <<runVars, pureVars>>

(***************************************************************************)
(* Bounds and the inputs drawn within them.                                *)
(***************************************************************************)
\* The tool is run this many times in a row on the directory.
MaxRuns == 2

\* The longest text given to minify_text on its own.
MaxTextLen == 4

\* The longest text of JsonAlphabet given to minify_json on its own.
MaxJsonLen == 4

TextAlphabet == {SP, TAB, LF, CR, FF, "{", ",", "a"}

JsonAlphabet == {SP, LF, QUOTE, "[", "]", ",", "{", "}", ":", "1", "0", "e", "9", "-", "."}

SeqsUpTo(S, n) == UNION {[1..k -> S] : k \in 0..n}

\* Longer texts: the two examples of the tool's description, a repeated
\* key, escapes, nesting, numbers in and out of the range of a double, and
\* the literal Infinity, which is no JSON and which json.loads accepts.
JsonSamples == {
    <<"{", QUOTE, "a", QUOTE, ":", SP, QUOTE, "x", SP, SP, "y", QUOTE, ",", SP,
      QUOTE, "b", QUOTE, ":", SP, "[", "1", ",", SP, "2", "]", "}">>,
    <<"{", QUOTE, "a", QUOTE, ":", SP, "}">>,
    <<"{", QUOTE, "a", QUOTE, ":", "1", ",", LF, QUOTE, "b", QUOTE, ":", "2", ",",
      QUOTE, "a", QUOTE, ":", "3", "}">>,
    <<"[", QUOTE, BACKSLASH, QUOTE, BACKSLASH, "n", TAB, QUOTE, "]">>,
    <<"[", QUOTE, BACKSLASH, QUOTE, BACKSLASH, "n", SP, ",", QUOTE, SP, "]">>,
    <<"{", QUOTE, QUOTE, ":", "{", QUOTE, "a", QUOTE, ":", "[", "[", "]", ",",
      "-", "0", ".", "5", "0", "]", "}", "}", CR, LF>>,
    <<"[", "1", "e", "3", "0", "8", ",", SP, "1", "2", "E", "+", "1", "5", "]">>,
    <<"[", "1", "e", "3", "0", "9", "]">>,
    <<"[", "1", "8", "e", "3", "0", "7", ",", "1", "e", "-", "5", "]">>,
    Infinity,
    <<"[", "-">> \o Infinity \o <<"]">>
}

JsonTexts == SeqsUpTo(JsonAlphabet, MaxJsonLen) \cup JsonSamples

\* File contents.
Absent == <<"absent">>

\* {"a": " ,"}
JsonSpaced == <<"{", QUOTE, "a", QUOTE, ":", SP, QUOTE, SP, ",", QUOTE, "}">>

\* {"a": }
JsonBroken == <<"{", QUOTE, "a", QUOTE, ":", SP, "}">>

\* Infinity
JsonInfinity == Infinity

\* [1, 1]
JsonList == <<"[", "1", ",", SP, "1", "]">>

TextLoose == <<"a", SP, SP, "{", "b", "}", LF>>

SheetLoose == <<SP, "a", SP, ",", "b">>

\* One byte that is no UTF-8 text and, being alone, no UTF-16-LE text.
Undecodable == <<xFF>>

\* Two bytes that are no UTF-8 text and one UTF-16-LE character.
Utf16Text == <<xFF, "a">>

OldBackup == <<"o", "l", "d">>

DataFile == <<SP, "d", SP, SP>>

Top == <<>>

Sub == <<<<"sub">>>>

NoFiles == [p \in {} |-> <<>>]

File(dir, name, bytes) ==
    IF bytes = Absent THEN NoFiles ELSE (Join(dir, name) :> bytes)

\* The directories the tool is run on: in the directory itself a.json,
\* a.txt and a.skysheet (each there or not), n.dat, and as "backup" nothing,
\* a regular file, or a directory of earlier backups; below it nothing, or a
\* directory sub holding c.JSON, with or without a directory c.skysheet.
InitialFileSystems ==
    {[files |->
        File(Top, <<"a", ".json">>, j) @@ File(Top, <<"a", ".txt">>, t)
        @@ File(Top, <<"a", ".skysheet">>, k) @@ File(Top, <<"n", ".dat">>, DataFile)
        @@ File(Top, <<"backup">>, IF b = "file" THEN DataFile ELSE Absent)
        @@ File(BackupFolder(Join(Top, <<>>)), <<"a", ".json", ".bak">>,
                IF b = "dir" THEN OldBackup ELSE Absent)
        @@ File(BackupFolder(Join(Top, <<>>)), <<"n", ".dat", ".bak">>,
                IF b = "dir" THEN OldBackup ELSE Absent)
        @@ File(Sub, <<"c", ".JSON">>, IF s = "none" THEN Absent ELSE JsonList),
      dirs |->
        {Top} \cup (IF b = "dir" THEN {BackupFolder(Join(Top, <<>>))} ELSE {})
        \cup (IF s = "none" THEN {} ELSE {Sub})
        \cup (IF s = "blocked" THEN {Append(Sub, <<"c", ".skysheet">>)} ELSE {})] :
     j \in {Absent, JsonSpaced, JsonBroken, JsonInfinity},
     t \in {Absent, TextLoose, Undecodable},
     k \in {Absent, SheetLoose, Utf16Text},
     b \in {"none", "file", "dir"},
     s \in {"none", "plain", "blocked"}}

NoCall == [path |-> Join(Top, <<>>), fs |-> [files |-> NoFiles, dirs |-> {}],
           count |-> 0, errors |-> 0, written |-> {}]

(***************************************************************************)
(* The run: process_directory on the directory, MaxRuns times in a row.    *)
(***************************************************************************)
PureIdle ==
    /\ content = <<>>
    /\ result = <<>>
    /\ again = <<>>
    /\ stage = "none"

RunIdle ==
    /\ pc = "idle"
    /\ dirs_left = <<>>
    /\ root = Top
    /\ files = {}
    /\ file_path = NoCall.path
    /\ original_encoding = "utf-8"
    /\ minified_content = None
    /\ ret = FALSE
    /\ count = 0
    /\ errors = 0
    /\ runs = 0
    /\ call = NoCall
    /\ called = NoFiles
    /\ trues = 0
    /\ written = {}

Init ==
    /\ fs \in InitialFileSystems
    /\ start = fs
    /\ RunIdle
    /\ PureIdle

\* process_directory is entered (lines 172-178).
StartRun ==
    /\ pc = "idle"
    /\ runs < MaxRuns
    /\ pc' = "walk"
    /\ dirs_left' = <<Top>>
    /\ files' = {}
    /\ count' = 0
    /\ errors' = 0
    /\ start' = fs
    /\ call' = NoCall
    /\ called' = NoFiles
    /\ trues' = 0
    /\ UNCHANGED <<fs, root, file_path, original_encoding, minified_content, ret,
                   runs, written, pureVars>>

\* os.walk scans the next directory (line 178): it lists the files and the
\* directories that are there now, in some order, and will go down the
\* directories after the files.
WalkDir ==
    /\ pc = "walk"
    /\ files = {}
    /\ dirs_left # <<>>
    /\ root' = Head(dirs_left)
    /\ files' = FilesIn(fs, Head(dirs_left))
    /\ \E order \in Orders(DirsIn(fs, Head(dirs_left))) :
           dirs_left' = order \o Tail(dirs_left)
    /\ UNCHANGED <<fs, pc, file_path, original_encoding, minified_content, ret,
                   count, errors, runs, start, call, called, trues, written,
                   pureVars>>

\* One turn of the for loop over the listed files, in any order (lines
\* 179-182): a supported file is handed to process_file.
Visit ==
    /\ pc = "walk"
    /\ \E file \in files :
        /\ files' = files \ {file}
        /\ IF Supported(file)
           THEN /\ pc' = "prepare"
                /\ file_path' = Join(root, file)
                /\ call' = [path |-> Join(root, file), fs |-> fs,
                            count |-> count, errors |-> errors,
                            written |-> written]
                /\ called' = (Join(root, file) :>
                                 (IF Join(root, file) \in DOMAIN called
                                  THEN called[Join(root, file)] + 1 ELSE 1))
                             @@ called
           ELSE UNCHANGED <<pc, file_path, call, called>>
    /\ UNCHANGED <<fs, dirs_left, root, original_encoding, minified_content, ret,
                   count, errors, runs, start, trues, written, pureVars>>

\* process_file up to the backup directory (lines 109-121).
Prepare ==
    /\ pc = "prepare"
    /\ IF ~isfile(fs, file_path)
       THEN /\ pc' = "ret"
            /\ ret' = FALSE
            /\ UNCHANGED <<fs, original_encoding>>
       ELSE LET made == makedirs(fs, BackupFolder(file_path))
            IN  /\ original_encoding' = detect_encoding(fs, file_path)
                /\ fs' = made.fs
                /\ pc' = IF made.raised THEN "ret" ELSE "copy"
                /\ ret' = FALSE
    /\ UNCHANGED <<dirs_left, root, files, file_path, minified_content, count,
                   errors, runs, start, call, called, trues, written, pureVars>>

\* The backup copy (lines 124-126).
Backup ==
    /\ pc = "copy"
    /\ fs' = copy2(fs, file_path, BackupPath(file_path))
    /\ pc' = "read"
    /\ UNCHANGED <<dirs_left, root, files, file_path, original_encoding,
                   minified_content, ret, count, errors, runs, start, call,
                   called, trues, written, pureVars>>

\* The file is read and minified (lines 129-139).
ReadMinify ==
    /\ pc = "read"
    /\ LET read == read_file(fs, file_path, original_encoding)
           minified == Minify(file_path, read.text)
       IN  IF read.raised
           THEN /\ pc' = "ret"
                /\ UNCHANGED minified_content
           ELSE /\ minified_content' = minified
                /\ pc' = IF minified = None THEN "ret" ELSE "open"
    /\ ret' = FALSE
    /\ UNCHANGED <<fs, dirs_left, root, files, file_path, original_encoding,
                   count, errors, runs, start, call, called, trues, written,
                   pureVars>>

\* write_file opens the output file (lines 142-144 and 56).
OpenOutput ==
    /\ pc = "open"
    /\ LET opened == open_w(fs, NewFilePath(file_path))
       IN  /\ fs' = opened.fs
           /\ pc' = IF opened.raised THEN "ret" ELSE "write"
    /\ ret' = FALSE
    /\ UNCHANGED <<dirs_left, root, files, file_path, original_encoding,
                   minified_content, count, errors, runs, start, call, called,
                   trues, written, pureVars>>

\* write_file writes and closes it, and process_file returns True (lines 57
\* and 146-150).
WriteOutput ==
    /\ pc = "write"
    /\ fs' = write_close(fs, NewFilePath(file_path), minified_content,
                         original_encoding)
    /\ pc' = "ret"
    /\ ret' = TRUE
    /\ trues' = trues + 1
    /\ written' = written \cup {NewFilePath(file_path)}
    /\ UNCHANGED <<dirs_left, root, files, file_path, original_encoding,
                   minified_content, count, errors, runs, start, call, called,
                   pureVars>>

\* process_directory counts the result (lines 182-185).
Account ==
    /\ pc = "ret"
    /\ IF ret
       THEN count' = count + 1 /\ UNCHANGED errors
       ELSE errors' = errors + 1 /\ UNCHANGED count
    /\ pc' = "walk"
    /\ UNCHANGED <<fs, dirs_left, root, files, file_path, original_encoding,
                   minified_content, ret, runs, start, call, called, trues,
                   written, pureVars>>

\* The walk is over and process_directory returns count, errors (line 187).
EndRun ==
    /\ pc = "walk"
    /\ files = {}
    /\ dirs_left = <<>>
    /\ pc' = "idle"
    /\ runs' = runs + 1
    /\ UNCHANGED <<fs, dirs_left, root, files, file_path, original_encoding,
                   minified_content, ret, count, errors, start, call, called,
                   trues, written, pureVars>>

Next ==
    \/ StartRun
    \/ WalkDir
    \/ Visit
    \/ Prepare
    \/ Backup
    \/ ReadMinify
    \/ OpenOutput
    \/ WriteOutput
    \/ Account
    \/ EndRun

Spec == Init /\ [][Next]_vars

(***************************************************************************)
(* process_directory as a function of the file system: the walk with each  *)
(* listing taken in one fixed order.                                       *)
(***************************************************************************)
SomeOrder(S) == CHOOSE o \in Orders(S) : TRUE

\* lines 182-185
Tally(st, r) ==
    [fs |-> r.fs,
     count |-> IF r.ret THEN st.count + 1 ELSE st.count,
     errors |-> IF r.ret THEN st.errors ELSE st.errors + 1]

\* lines 180-185
VisitFile(st, top, file) ==
    IF Supported(file) THEN Tally(st, process_file(st.fs, Join(top, file))) ELSE st

\* lines 179-185, over the files listed and not reached yet
RECURSIVE WalkFiles(_, _, _)
WalkFiles(st, top, names) ==
    IF names = {} THEN st
    ELSE WalkFiles(VisitFile(st, top, SomeOrder(names)[1]), top,
                   names \ {SomeOrder(names)[1]})

\* line 178, over the directories still to scan
RECURSIVE Walk(_, _)
Walk(st, left) ==
    IF left = <<>> THEN st
    ELSE Walk(WalkFiles(st, Head(left), FilesIn(st.fs, Head(left))),
              SomeOrder(DirsIn(st.fs, Head(left))) \o Tail(left))

process_directory(f) == Walk([fs |-> f, count |-> 0, errors |-> 0], <<Top>>)

(***************************************************************************)
(* minify_text on its own: applied to a text, then to its own output.      *)
(***************************************************************************)
NoFileSystem == [files |-> NoFiles, dirs |-> {}]

InitText ==
    /\ stage = "input"
    /\ content \in SeqsUpTo(TextAlphabet, MaxTextLen)
    /\ result = <<>>
    /\ again = <<>>
    /\ fs = NoFileSystem
    /\ start = fs
    /\ RunIdle

MinifyText ==
    /\ stage = "input"
    /\ result' = minify_text(content)
    /\ stage' = "once"
    /\ UNCHANGED <<content, again, runVars>>

MinifyTextAgain ==
    /\ stage = "once"
    /\ again' = minify_text(result)
    /\ stage' = "twice"
    /\ UNCHANGED <<content, result, runVars>>

NextText ==
    \/ MinifyText
    \/ MinifyTextAgain

SpecText == InitText /\ [][NextText]_vars

(***************************************************************************)
(* minify_json on its own.                                                 *)
(***************************************************************************)
InitJson ==
    /\ stage = "input"
    /\ content \in JsonTexts
    /\ result = <<>>
    /\ again = <<>>
    /\ fs = NoFileSystem
    /\ start = fs
    /\ RunIdle

MinifyJson ==
    /\ stage = "input"
    /\ result' = minify_json(content)
    /\ stage' = "json"
    /\ UNCHANGED <<content, again, runVars>>

NextJson == MinifyJson

SpecJson == InitJson /\ [][NextJson]_vars

(***************************************************************************)
(* The properties of minify_text and minify_json on their own.             *)
(***************************************************************************)
\* C6: minify_text is idempotent: for every text over spaces, tabs, CR, LF,
\* form feeds, punctuation and ordinary characters, minifying the minified
\* text again gives the same text.
C6_MinifyTextIdempotent == stage = "twice" => again = result

\* A text that minify_text changed and in which it left whitespace.
C6_Witness ==
    /\ stage = "twice"
    /\ result # content
    /\ \E i \in DOMAIN result : result[i] \in Space

\* The JSON grammar (RFC 8259): the decoder without the literals Infinity
\* and -Infinity, which Python adds to it.
IsValidJson(s) == Decode(s, FALSE).ok

\* Whether s, read from index i on, holds whitespace outside its strings.
RECURSIVE SpaceOutsideStrings(_, _, _)
SpaceOutsideStrings(s, i, inString) ==
    IF i > Len(s) THEN FALSE
    ELSE IF inString
         THEN IF s[i] = BACKSLASH THEN SpaceOutsideStrings(s, i + 2, TRUE)
              ELSE SpaceOutsideStrings(s, i + 1, s[i] # QUOTE)
         ELSE s[i] \in Space \/ SpaceOutsideStrings(s, i + 1, s[i] = QUOTE)

\* C7: for every valid JSON text, minify_json gives valid JSON that parses
\* to the same value (strings and key order included) and holds no
\* whitespace outside its strings.
C7_MinifyJsonRoundTrip ==
    (stage = "json" /\ IsValidJson(content)) =>
        /\ result # None
        /\ IsValidJson(result)
        /\ Decode(result, FALSE).val = Decode(content, FALSE).val
        /\ ~SpaceOutsideStrings(result, 1, FALSE)

(***************************************************************************)
(* The properties of process_file and process_directory.                   *)
(***************************************************************************)
\* The supported extensions as the description lists them, in either case.
HasSupportedExtension(name) ==
    Len(name) >= 2 /\ name[Len(name)] \in {".json", ".JSON", ".txt", ".skysheet"}

SupportedFiles(f) == {p \in DOMAIN f.files : HasSupportedExtension(p.name)}

UnsupportedFiles(f) == DOMAIN f.files \ SupportedFiles(f)

IsSkysheet(p) == p.name[Len(p.name)] = ".skysheet"

\* <dir>/backup/<name>.bak
IsBackupFile(p) ==
    /\ p.dir # <<>>
    /\ p.dir[Len(p.dir)] = <<"backup">>
    /\ p.name[Len(p.name)] = ".bak"

\* Where the backups of the supported files of f go.
BackupPaths(f) == {BackupPath(q) : q \in SupportedFiles(f)}

\* A process_file call is under way or has just returned.
InCall == pc \in {"prepare", "copy", "read", "open", "write", "ret"}

\* The text of the file the current call was made on, as the call reads it.
CallText ==
    read_file(call.fs, call.path, detect_encoding(call.fs, call.path)).text

BackupHoldsOriginal ==
    /\ isfile(fs, BackupPath(call.path))
    /\ fs.files[BackupPath(call.path)] = call.fs.files[call.path]

SkysheetsUntouched ==
    \A p \in DOMAIN fs.files :
        IsSkysheet(p) => isfile(call.fs, p) /\ fs.files[p] = call.fs.files[p]

OnlyBackupMade ==
    /\ DOMAIN call.fs.files \subseteq DOMAIN fs.files
    /\ \A p \in DOMAIN fs.files \ {BackupPath(call.path)} :
           isfile(call.fs, p) /\ fs.files[p] = call.fs.files[p]
    /\ fs.dirs \ {BackupFolder(call.path)} = call.fs.dirs \ {BackupFolder(call.path)}

\* C2: on a .json file whose content is not valid JSON, minify_json gives
\* None, process_file returns False having changed nothing but the backup
\* (no .skysheet file is made or changed), and process_directory counts one
\* error and goes on.
C2_InvalidJsonIsAnError ==
    (call # NoCall /\ FileExt(call.path) = ".json" /\ ~IsValidJson(CallText)) =>
        /\ minify_json(CallText) = None
        /\ InCall => SkysheetsUntouched /\ OnlyBackupMade
        /\ pc = "ret" => ret = FALSE
        /\ pc \in {"walk", "idle"} =>
               errors = call.errors + 1 /\ count = call.count

UnchangedSinceStart(p) == isfile(fs, p) /\ fs.files[p] = start.files[p]

\* C4 as claimed: a run leaves every unsupported file of the tree as it was,
\* the .bak files of a backup directory included.
C4_UnsupportedUntouched_AsClaimed ==
    (pc = "idle" /\ runs >= 1) =>
        \A p \in UnsupportedFiles(start) : UnchangedSinceStart(p)

\* C4, amended: a run leaves every unsupported file as it was, except the
\* files <dir>/backup/<f>.bak of the supported files f of <dir>, which the
\* backup of f overwrites.
C4_UnsupportedUntouched ==
    (pc = "idle" /\ runs >= 1) =>
        \A p \in UnsupportedFiles(start) \ BackupPaths(start) :
            UnchangedSinceStart(p)

\* A finished run that minified a file, overwrote the earlier backup of a
\* supported file and left the earlier backup of an unsupported one.
C4_Witness ==
    /\ pc = "idle"
    /\ runs >= 1
    /\ count > 0
    /\ \E p \in UnsupportedFiles(start) \cap BackupPaths(start) :
           ~UnchangedSinceStart(p)
    /\ \E p \in UnsupportedFiles(start) \ BackupPaths(start) :
           IsBackupFile(p) /\ UnchangedSinceStart(p)

\* C5: after the second of two runs in a row, every backup file and every
\* .skysheet file holds what it held after the first (start is the file
\* system the second run started on).
C5_SecondRunChangesNothing ==
    (pc = "idle" /\ runs = 2) =>
        \A p \in DOMAIN start.files :
            (IsBackupFile(p) \/ IsSkysheet(p)) => UnchangedSinceStart(p)

\* C8: process_file on a .skysheet file that a successful process_file call
\* wrote leaves its content as it is.
C8_ReminifyIsNoOp ==
    (pc = "ret" /\ ret /\ call.path \in call.written) =>
        fs.files[call.path] = call.fs.files[call.path]

\* C9: at every point of a run, the content each supported file had when the
\* run started is in the file itself or in its <dir>/backup/<filename>.bak.
C9_OriginalNeverLost ==
    \A p \in SupportedFiles(start) :
        \/ UnchangedSinceStart(p)
        \/ /\ isfile(fs, BackupPath(p))
           /\ fs.files[BackupPath(p)] = start.files[p]

\* C10: whatever the order in which the walk lists the files and the
\* directories, the run leaves the file system and returns the counts that
\* the walk in one fixed order does.
C10_OrderIndependent ==
    (pc = "idle" /\ runs >= 1) =>
        [fs |-> fs, count |-> count, errors |-> errors] = process_directory(start)

=============================================================================
